---- MODULE Spec2Model ----
(***************************************************************************)
(* GLDAS weather forecasting pipeline (predicts.py) and its web front end  *)
(* (app.py).                                                               *)
(*                                                                         *)
(* Numbers are integers: forecast values and observations are sampled on   *)
(* both sides of (and on) every threshold the code compares them with.     *)
(* A DataFrame is a record [columns, rows]; a cell is <<v>> or NaN (<<>>). *)
(* A forecast map is a function from the forecast parameters it holds to   *)
(* [value |-> v] (the confidence bounds are copied through untouched by    *)
(* every operation modelled here and are left out).                        *)
(***************************************************************************)
EXTENDS Integers, Sequences, FiniteSets, TLC

VARIABLES pc, file_list, target_date, df, param_i, model, months_diff, status,
          forecasts, wscore, comfort_desc, specific_conditions, risks, prev,
          region, request, future, disk, response

vars == <<pc, file_list, target_date, df, param_i, model, months_diff, status,
          forecasts, wscore, comfort_desc, specific_conditions, risks, prev,
          region, request, future, disk, response>>

\* the inputs of an invocation: fixed once main has them
inputVars == <<file_list, target_date, region, request>>

\* the state of the forecasting loop of main
loopVars == <<param_i, model, months_diff, status, future>>

\* the results main derives from the forecast map
scoreVars == <<wscore, comfort_desc, specific_conditions, risks>>

\* the forecast records in the working directory, oldest modification
\* first, and the response of the web front end
appVars == <<disk, response>>

(***************************************************************************)
(* Values and small helpers                                                *)
(***************************************************************************)
NaN == <<>>

None == <<>>

Max(a, b) == IF a >= b THEN a ELSE b

Min(a, b) == IF a <= b THEN a ELSE b

RECURSIVE SumSeq(_)
SumSeq(s) == IF s = <<>> THEN 0 ELSE Head(s) + SumSeq(Tail(s))

Rep(v, n) == [i \in 1..n |-> v]

\* Series.tail(n): the last n elements (all of them when there are fewer)
SeriesTail(s, n) == IF Len(s) <= n THEN s ELSE SubSeq(s, Len(s) - n + 1, Len(s))

\* the non-NaN values of a column, in order (Series.dropna / skipna)
NonNaN(s) == SelectSeq(s, LAMBDA c : c # NaN)

\* df[name] as a sequence of cells
Column(frame, name) == [i \in 1..Len(frame.rows) |-> frame.rows[i][name]]

\* Series.mean() < bound; the mean skips NaN and is NaN (every comparison
\* False) when no value is left
MeanLess(s, bound) ==
    LET vals == NonNaN(s)
    IN  /\ Len(vals) > 0
        /\ SumSeq([i \in 1..Len(vals) |-> vals[i][1]]) < bound * Len(vals)

\* forecasts.get(key, {}).get('value', default)
GetValue(fc, key, default) ==
    IF key \in DOMAIN fc THEN fc[key].value ELSE default

(***************************************************************************)
(* calculate_wscore                                                        *)
(***************************************************************************)
\* calculate_wscore without the mildest temperature tier (below 10 or above 20)
calculate_wscore_no_tier2(fc) ==
    LET temp     == GetValue(fc, "temperature", 20)
        humidity == GetValue(fc, "humidity", 50)
        wind     == GetValue(fc, "wind_speed", 3)
        precip   == GetValue(fc, "precipitation", 0)
        snow     == GetValue(fc, "snow_water", 0)
        score0   == 1
        score1   == IF temp < -10 \/ temp > 35 THEN Max(score0, 5)
                    ELSE IF temp < -5 \/ temp > 30 THEN Max(score0, 4)
                    ELSE IF temp < 0 \/ temp > 25 THEN Max(score0, 3)
                    ELSE score0
        score2   == IF humidity > 85 THEN Max(score1, 4)
                    ELSE IF humidity > 70 THEN Max(score1, 3)
                    ELSE IF humidity < 20 THEN Max(score1, 3)
                    ELSE score1
        score3   == IF wind > 15 THEN Max(score2, 5)
                    ELSE IF wind > 10 THEN Max(score2, 4)
                    ELSE IF wind > 7 THEN Max(score2, 3)
                    ELSE score2
        score4   == IF precip > 200 THEN Max(score3, 5)
                    ELSE IF precip > 100 THEN Max(score3, 4)
                    ELSE IF precip > 50 THEN Max(score3, 3)
                    ELSE score3
        score5   == IF snow > 200 THEN Max(score4, 5)
                    ELSE IF snow > 100 THEN Max(score4, 4)
                    ELSE IF snow > 50 THEN Max(score4, 3)
                    ELSE score4
    IN  Min(score5, 5)

\* calculate_wscore with the wind tier above 10 mistyped as 2
calculate_wscore_wind_tier(fc) ==
    LET temp     == GetValue(fc, "temperature", 20)
        humidity == GetValue(fc, "humidity", 50)
        wind     == GetValue(fc, "wind_speed", 3)
        precip   == GetValue(fc, "precipitation", 0)
        snow     == GetValue(fc, "snow_water", 0)
        score0   == 1
        score1   == IF temp < -10 \/ temp > 35 THEN Max(score0, 5)
                    ELSE IF temp < -5 \/ temp > 30 THEN Max(score0, 4)
                    ELSE IF temp < 0 \/ temp > 25 THEN Max(score0, 3)
                    ELSE IF temp < 10 \/ temp > 20 THEN Max(score0, 2)
                    ELSE score0
        score2   == IF humidity > 85 THEN Max(score1, 4)
                    ELSE IF humidity > 70 THEN Max(score1, 3)
                    ELSE IF humidity < 20 THEN Max(score1, 3)
                    ELSE score1
        score3   == IF wind > 15 THEN Max(score2, 5)
                    ELSE IF wind > 10 THEN Max(score2, 2)
                    ELSE IF wind > 7 THEN Max(score2, 3)
                    ELSE score2
        score4   == IF precip > 200 THEN Max(score3, 5)
                    ELSE IF precip > 100 THEN Max(score3, 4)
                    ELSE IF precip > 50 THEN Max(score3, 3)
                    ELSE score3
        score5   == IF snow > 200 THEN Max(score4, 5)
                    ELSE IF snow > 100 THEN Max(score4, 4)
                    ELSE IF snow > 50 THEN Max(score4, 3)
                    ELSE score4
    IN  Min(score5, 5)

calculate_wscore(fc) ==
    LET temp     == GetValue(fc, "temperature", 20)
        humidity == GetValue(fc, "humidity", 50)
        wind     == GetValue(fc, "wind_speed", 3)
        precip   == GetValue(fc, "precipitation", 0)
        snow     == GetValue(fc, "snow_water", 0)
        score0   == 1
        score1   == IF temp < -10 \/ temp > 35 THEN Max(score0, 5)
                    ELSE IF temp < -5 \/ temp > 30 THEN Max(score0, 4)
                    ELSE IF temp < 0 \/ temp > 25 THEN Max(score0, 3)
                    ELSE IF temp < 10 \/ temp > 20 THEN Max(score0, 2)
                    ELSE score0
        score2   == IF humidity > 85 THEN Max(score1, 4)
                    ELSE IF humidity > 70 THEN Max(score1, 3)
                    ELSE IF humidity < 20 THEN Max(score1, 3)
                    ELSE score1
        score3   == IF wind > 15 THEN Max(score2, 5)
                    ELSE IF wind > 10 THEN Max(score2, 4)
                    ELSE IF wind > 7 THEN Max(score2, 3)
                    ELSE score2
        score4   == IF precip > 200 THEN Max(score3, 5)
                    ELSE IF precip > 100 THEN Max(score3, 4)
                    ELSE IF precip > 50 THEN Max(score3, 3)
                    ELSE score3
        score5   == IF snow > 200 THEN Max(score4, 5)
                    ELSE IF snow > 100 THEN Max(score4, 4)
                    ELSE IF snow > 50 THEN Max(score4, 3)
                    ELSE score4
    IN  Min(score5, 5)

(***************************************************************************)
(* get_comfort_description                                                 *)
(***************************************************************************)
comfort_levels(score) ==
    CASE score = 1 -> "EXCELLENT - very comfortable conditions"
      [] score = 2 -> "GOOD - comfortable conditions"
      [] score = 3 -> "MODERATE - average comfort conditions"
      [] score = 4 -> "UNCOMFORTABLE - uncomfortable conditions"
      [] score = 5 -> "CRITICAL - very uncomfortable conditions"
      [] OTHER     -> "Moderate conditions"

get_comfort_description(score, fc) ==
    LET temp  == GetValue(fc, "temperature", 20)
        wind  == GetValue(fc, "wind_speed", 3)
        d1    == IF temp > 35 THEN <<"VERY HOT conditions">>
                 ELSE IF temp > 30 THEN <<"Hot conditions">>
                 ELSE IF temp < -10 THEN <<"VERY COLD conditions">>
                 ELSE IF temp < -5 THEN <<"Cold conditions">>
                 ELSE <<>>
        d2    == IF wind > 15 THEN Append(d1, "VERY WINDY conditions")
                 ELSE IF wind > 10 THEN Append(d1, "Windy conditions")
                 ELSE d1
    IN  [main_description |-> comfort_levels(score), descriptions |-> d2]

(***************************************************************************)
(* analyze_weather_risks                                                   *)
(* The result is [raised, flags]: raised is TRUE when the function ends    *)
(* with KeyError (historical_data['precipitation'] on a frame without that *)
(* column), and then no list is returned.                                  *)
(***************************************************************************)
DroughtLookupRaises(fc, historical_data) ==
    /\ GetValue(fc, "precipitation", 0) < 20
    /\ "precipitation" \notin historical_data.columns

\* analyze_weather_risks with the two drought conditions joined by 'or'
analyze_weather_risks_or(fc, historical_data) ==
    LET precip_forecast == GetValue(fc, "precipitation", 0)
        temp_forecast   == GetValue(fc, "temperature", 0)
        wind_forecast   == GetValue(fc, "wind_speed", 0)
        snow_forecast   == GetValue(fc, "snow_water", 0)
        r1 == IF precip_forecast > 300 THEN <<"HIGH FLOOD RISK">>
              ELSE IF precip_forecast > 150 THEN <<"MODERATE FLOOD RISK">>
              ELSE <<>>
        r2 == IF \/ precip_forecast < 20
                 \/ MeanLess(SeriesTail(Column(historical_data, "precipitation"), 6), 30)
              THEN Append(r1, "DROUGHT RISK")
              ELSE IF precip_forecast < 40 THEN Append(r1, "PRECIPITATION DEFICIT")
              ELSE r1
        r3 == IF temp_forecast < -15 THEN Append(r2, "EXTREME FROST")
              ELSE IF temp_forecast < -5 THEN Append(r2, "STRONG FROST")
              ELSE r2
        r4 == IF temp_forecast > 35 THEN Append(r3, "EXTREME HEAT")
              ELSE IF temp_forecast > 30 THEN Append(r3, "HEAT")
              ELSE r3
        r5 == IF snow_forecast > 500 THEN Append(r4, "EXTREME SNOWFALL")
              ELSE IF snow_forecast > 200 THEN Append(r4, "HEAVY SNOWFALL")
              ELSE r4
        r6 == IF wind_forecast > 20 THEN Append(r5, "HURRICANE WINDS")
              ELSE IF wind_forecast > 15 THEN Append(r5, "STRONG WIND")
              ELSE r5
    IN  IF DroughtLookupRaises(fc, historical_data)
        THEN [raised |-> TRUE, flags |-> <<>>]
        ELSE [raised |-> FALSE, flags |-> r6]

\* analyze_weather_risks with the moderate wind test as 'if' instead of 'elif'
analyze_weather_risks_both_wind(fc, historical_data) ==
    LET precip_forecast == GetValue(fc, "precipitation", 0)
        temp_forecast   == GetValue(fc, "temperature", 0)
        wind_forecast   == GetValue(fc, "wind_speed", 0)
        snow_forecast   == GetValue(fc, "snow_water", 0)
        r1 == IF precip_forecast > 300 THEN <<"HIGH FLOOD RISK">>
              ELSE IF precip_forecast > 150 THEN <<"MODERATE FLOOD RISK">>
              ELSE <<>>
        r2 == IF /\ precip_forecast < 20
                 /\ MeanLess(SeriesTail(Column(historical_data, "precipitation"), 6), 30)
              THEN Append(r1, "DROUGHT RISK")
              ELSE IF precip_forecast < 40 THEN Append(r1, "PRECIPITATION DEFICIT")
              ELSE r1
        r3 == IF temp_forecast < -15 THEN Append(r2, "EXTREME FROST")
              ELSE IF temp_forecast < -5 THEN Append(r2, "STRONG FROST")
              ELSE r2
        r4 == IF temp_forecast > 35 THEN Append(r3, "EXTREME HEAT")
              ELSE IF temp_forecast > 30 THEN Append(r3, "HEAT")
              ELSE r3
        r5 == IF snow_forecast > 500 THEN Append(r4, "EXTREME SNOWFALL")
              ELSE IF snow_forecast > 200 THEN Append(r4, "HEAVY SNOWFALL")
              ELSE r4
        r5h == IF wind_forecast > 20 THEN Append(r5, "HURRICANE WINDS") ELSE r5
        r6 == IF wind_forecast > 15 THEN Append(r5h, "STRONG WIND") ELSE r5h
    IN  IF DroughtLookupRaises(fc, historical_data)
        THEN [raised |-> TRUE, flags |-> <<>>]
        ELSE [raised |-> FALSE, flags |-> r6]

analyze_weather_risks(fc, historical_data) ==
    LET precip_forecast == GetValue(fc, "precipitation", 0)
        temp_forecast   == GetValue(fc, "temperature", 0)
        wind_forecast   == GetValue(fc, "wind_speed", 0)
        snow_forecast   == GetValue(fc, "snow_water", 0)
        r1 == IF precip_forecast > 300 THEN <<"HIGH FLOOD RISK">>
              ELSE IF precip_forecast > 150 THEN <<"MODERATE FLOOD RISK">>
              ELSE <<>>
        r2 == IF /\ precip_forecast < 20
                 /\ MeanLess(SeriesTail(Column(historical_data, "precipitation"), 6), 30)
              THEN Append(r1, "DROUGHT RISK")
              ELSE IF precip_forecast < 40 THEN Append(r1, "PRECIPITATION DEFICIT")
              ELSE r1
        r3 == IF temp_forecast < -15 THEN Append(r2, "EXTREME FROST")
              ELSE IF temp_forecast < -5 THEN Append(r2, "STRONG FROST")
              ELSE r2
        r4 == IF temp_forecast > 35 THEN Append(r3, "EXTREME HEAT")
              ELSE IF temp_forecast > 30 THEN Append(r3, "HEAT")
              ELSE r3
        r5 == IF snow_forecast > 500 THEN Append(r4, "EXTREME SNOWFALL")
              ELSE IF snow_forecast > 200 THEN Append(r4, "HEAVY SNOWFALL")
              ELSE r4
        r6 == IF wind_forecast > 20 THEN Append(r5, "HURRICANE WINDS")
              ELSE IF wind_forecast > 15 THEN Append(r5, "STRONG WIND")
              ELSE r5
    IN  IF DroughtLookupRaises(fc, historical_data)
        THEN [raised |-> TRUE, flags |-> <<>>]
        ELSE [raised |-> FALSE, flags |-> r6]

(***************************************************************************)
(* Dates: <<year, month, day>>                                             *)
(***************************************************************************)
IsLeap(y) == (y % 4 = 0 /\ y % 100 # 0) \/ y % 400 = 0

DaysInMonth(y, m) ==
    CASE m = 2 -> IF IsLeap(y) THEN 29 ELSE 28
      [] m \in {4, 6, 9, 11} -> 30
      [] OTHER -> 31

DateLE(a, b) ==
    \/ a[1] < b[1]
    \/ a[1] = b[1] /\ a[2] < b[2]
    \/ a[1] = b[1] /\ a[2] = b[2] /\ a[3] <= b[3]

\* datetime(y, m, 1) + timedelta(days = extra), extra >= -1
RECURSIVE AddDays(_, _, _)
AddDays(y, m, extra) ==
    IF extra < 0 THEN <<y - 1, 12, 31>>
    ELSE IF extra < DaysInMonth(y, m) THEN <<y, m, extra + 1>>
    ELSE IF m = 12 THEN AddDays(y + 1, 1, extra - 31)
    ELSE AddDays(y, m + 1, extra - DaysInMonth(y, m))

\* datetime.strptime(target_date, '%Y-%m-%d') raises ValueError on a string
\* that is not a calendar date
StrptimeRaises(date) ==
    ~(date[2] \in 1..12 /\ date[3] \in 1..DaysInMonth(date[1], date[2]))

(***************************************************************************)
(* extract_date_from_filename                                              *)
(* A file name is [pattern, year, num]: which of the three patterns matches*)
(* first ("A7": .A + 7 digits, year and day of year; "M6": 6 digits, year  *)
(* and month; "none": no match) and the digits it captures.                *)
(***************************************************************************)
extract_date_from_filename(filename) ==
    CASE filename.pattern = "M6" ->
            IF filename.num \in 1..12 THEN <<filename.year, filename.num, 1>>
            ELSE None
      [] filename.pattern = "A7" -> AddDays(filename.year, 1, filename.num - 1)
      [] OTHER -> None

(***************************************************************************)
(* extract_weather_data                                                    *)
(* A file is [name, in_box, data]: in_box says whether some grid cell lies *)
(* in the bounding box on both axes, data maps each variable the dataset   *)
(* holds to the converted mean of its cells in the box (NaN when every     *)
(* cell is NaN).                                                           *)
(***************************************************************************)
Variables ==
    {"temperature", "precipitation", "humidity", "pressure", "wind_speed", "snow_water"}

extract_weather_data(file) ==
    IF ~file.in_box THEN None
    ELSE IF extract_date_from_filename(file.name) = None THEN None
    ELSE [date |-> extract_date_from_filename(file.name), data |-> file.data]

(***************************************************************************)
(* process_all_files                                                       *)
(***************************************************************************)
EmptyFrame == [columns |-> {}, rows |-> <<>>]

\* pd.DataFrame(data_list): one row per dict, a column per key that occurs,
\* NaN where a dict lacks the key
FrameRow(d) ==
    [date          |-> d.date,
     temperature   |-> IF "temperature" \in DOMAIN d.data THEN d.data["temperature"] ELSE NaN,
     precipitation |-> IF "precipitation" \in DOMAIN d.data THEN d.data["precipitation"] ELSE NaN,
     humidity      |-> IF "humidity" \in DOMAIN d.data THEN d.data["humidity"] ELSE NaN,
     pressure      |-> IF "pressure" \in DOMAIN d.data THEN d.data["pressure"] ELSE NaN,
     wind_speed    |-> IF "wind_speed" \in DOMAIN d.data THEN d.data["wind_speed"] ELSE NaN,
     snow_water    |-> IF "snow_water" \in DOMAIN d.data THEN d.data["snow_water"] ELSE NaN]

FrameColumns(data_list) ==
    {"date"} \cup UNION { DOMAIN data_list[i].data : i \in 1..Len(data_list) }

\* df.sort_values('date'): every ordering of the rows by ascending date; the
\* default sort is not stable, so rows of equal date come in any order
RECURSIVE SortedByDate(_, _)
SortedByDate(rows, idx) ==
    IF idx = {} THEN { <<>> }
    ELSE LET first == { i \in idx : \A j \in idx : DateLE(rows[i].date, rows[j].date) }
         IN  UNION { { <<rows[i]>> \o rest : rest \in SortedByDate(rows, idx \ {i}) } :
                     i \in first }

\* fillna(method='ffill') on one column: a NaN cell takes the nearest
\* preceding non-NaN cell, if any
FFillCell(rows, name, i) ==
    LET before == { j \in 1..i : rows[j][name] # NaN }
    IN  IF before = {} THEN NaN
        ELSE rows[CHOOSE j \in before : \A k \in before : k <= j][name]

FFill(rows) ==
    [i \in 1..Len(rows) |->
        [date          |-> rows[i].date,
         temperature   |-> FFillCell(rows, "temperature", i),
         precipitation |-> FFillCell(rows, "precipitation", i),
         humidity      |-> FFillCell(rows, "humidity", i),
         pressure      |-> FFillCell(rows, "pressure", i),
         wind_speed    |-> FFillCell(rows, "wind_speed", i),
         snow_water    |-> FFillCell(rows, "snow_water", i)]]

\* the frames process_all_files can return for a file list
process_all_files(files) ==
    LET extracted == [i \in 1..Len(files) |-> extract_weather_data(files[i])]
        data_list == SelectSeq(extracted, LAMBDA d : d # None)
        rows      == [i \in 1..Len(data_list) |-> FrameRow(data_list[i])]
    IN  IF data_list = <<>> THEN { EmptyFrame }
        ELSE { [columns |-> FrameColumns(data_list), rows |-> FFill(sorted)] :
                 sorted \in SortedByDate(rows, 1..Len(rows)) }

(***************************************************************************)
(* prepare_prophet_data / train_prophet_model                              *)
(***************************************************************************)
MIN_DATA_POINTS == 12

additional_features == {"temperature", "humidity", "pressure", "wind_speed"}

\* the prophet frame: y is the target column, one regressor column per
\* additional feature present in df other than the target, and only the
\* rows in which none of these cells is NaN (dropna)
prepare_prophet_data(frame, target_column) ==
    IF target_column \notin frame.columns THEN None
    ELSE LET features == (additional_features \cap frame.columns) \ {target_column}
         IN  [y        |-> target_column,
              features |-> features,
              rows     |-> SelectSeq(frame.rows,
                              LAMBDA r : \A c \in features \cup {target_column} : r[c] # NaN)]

\* the models train_prophet_model can return: None below the minimum number
\* of rows or when model.fit raises (caught), else the fitted model with
\* its regressors
train_prophet_model(prophet_df) ==
    IF prophet_df = None THEN { None }
    ELSE IF Len(prophet_df.rows) < MIN_DATA_POINTS THEN { None }
    ELSE { None, [regressors |-> prophet_df.features] }

(***************************************************************************)
(* make_forecast_for_date                                                  *)
(***************************************************************************)
\* df['date'].max()
LastDate(frame) ==
    LET dates == { frame.rows[i].date : i \in 1..Len(frame.rows) }
    IN  CHOOSE d \in dates : \A e \in dates : DateLE(e, d)

MonthsDiff(target_datetime, last_date) ==
    (target_datetime[1] - last_date[1]) * 12 + (target_datetime[2] - last_date[2])

\* Series.mean(): the sum and the number of the cells that are not NaN, NaN
\* when there is none
Mean(s) ==
    LET vals == NonNaN(s)
    IN  IF vals = <<>> THEN NaN
        ELSE [sum |-> SumSeq([i \in 1..Len(vals) |-> vals[i][1]]), count |-> Len(vals)]

\* df[df['date'].dt.month == month][feature]
MonthlyData(frame, feature, month) ==
    Column([rows |-> SelectSeq(frame.rows, LAMBDA r : r.date[2] = month)], feature)

\* the value put in future[feature]: the mean of the feature over the rows
\* of the target's calendar month when there is such a row, else the mean of
\* its last 12 cells
FutureFeatureValue(frame, feature, month) ==
    LET monthly_data == MonthlyData(frame, feature, month)
    IN  IF Len(monthly_data) > 0
        THEN Mean(monthly_data)
        ELSE Mean(SeriesTail(Column(frame, feature), 12))

\* the frame of future values handed to model.predict, one per regressor
FutureFrame(m, frame, month) ==
    [r \in m.regressors |-> FutureFeatureValue(frame, r, month)]

\* the value put in future[feature] is NaN: the mean of the feature over the
\* rows of the target's calendar month when there is such a row, else the
\* mean of its last 12 cells, is a mean of NaN cells only
FutureFeatureIsNaN(frame, feature, month) ==
    LET idx == { i \in 1..Len(frame.rows) : frame.rows[i].date[2] = month }
    IN  IF idx # {}
        THEN \A i \in idx : frame.rows[i][feature] = NaN
        ELSE NonNaN(SeriesTail(Column(frame, feature), 12)) = <<>>

\* the values Prophet may predict for the target month (yhat)
YhatValues(target_column) ==
    CASE target_column = "temperature"   -> {22, 36}
      [] target_column = "precipitation" -> {15, 60}
      [] target_column = "wind_speed"    -> {3}
      [] target_column = "humidity"      -> {50}
      [] target_column = "snow_water"    -> {0}

\* make_forecast_for_date rejecting only a negative horizon
make_forecast_for_date_lt(m, frame, target, target_column) ==
    IF StrptimeRaises(target)
    THEN { [raised |-> TRUE, months_diff |-> 0, future |-> <<>>, target_forecast |-> None] }
    ELSE LET diff == MonthsDiff(target, LastDate(frame))
             fut  == FutureFrame(m, frame, target[2])
         IN  IF diff < 0
             THEN { [raised |-> FALSE, months_diff |-> diff, future |-> <<>>,
                      target_forecast |-> None] }
             ELSE IF \E r \in m.regressors : FutureFeatureIsNaN(frame, r, target[2])
             THEN { [raised |-> FALSE, months_diff |-> diff, future |-> fut,
                      target_forecast |-> None] }
             ELSE { [raised |-> FALSE, months_diff |-> diff, future |-> fut,
                      target_forecast |-> None] }
                  \cup { [raised |-> FALSE, months_diff |-> diff, future |-> fut,
                          target_forecast |-> [yhat |-> v]] :
                         v \in YhatValues(target_column) }

\* the outcomes of make_forecast_for_date for a fitted model: raised (the
\* ValueError of strptime leaves the function), or the selected
\* target_forecast row, None when the function returns (None, None): horizon
\* not positive, or model.predict raised (caught) - which it does when a
\* regressor's future value is NaN, and may do otherwise
make_forecast_for_date(m, frame, target, target_column) ==
    IF StrptimeRaises(target)
    THEN { [raised |-> TRUE, months_diff |-> 0, future |-> <<>>, target_forecast |-> None] }
    ELSE LET diff == MonthsDiff(target, LastDate(frame))
             fut  == FutureFrame(m, frame, target[2])
         IN  IF diff <= 0
             THEN { [raised |-> FALSE, months_diff |-> diff, future |-> <<>>,
                      target_forecast |-> None] }
             ELSE IF \E r \in m.regressors : FutureFeatureIsNaN(frame, r, target[2])
             THEN { [raised |-> FALSE, months_diff |-> diff, future |-> fut,
                      target_forecast |-> None] }
             ELSE { [raised |-> FALSE, months_diff |-> diff, future |-> fut,
                      target_forecast |-> None] }
                  \cup { [raised |-> FALSE, months_diff |-> diff, future |-> fut,
                          target_forecast |-> [yhat |-> v]] :
                         v \in YhatValues(target_column) }

(***************************************************************************)
(* main: process the files, then the forecasting loop                      *)
(***************************************************************************)
target_parameters ==
    <<"temperature", "precipitation", "wind_speed", "humidity", "snow_water">>

EmptyForecasts == [d \in {} |-> [value |-> 0]]

SetStatus(param, what) ==
    [q \in DOMAIN status \cup {param} |-> IF q = param THEN what ELSE status[q]]

\* df = process_all_files(...), then the size check
main_process ==
    /\ pc = "process"
    /\ df' \in process_all_files(file_list)
    /\ pc' = IF Len(df'.rows) < MIN_DATA_POINTS THEN "insufficient_data" ELSE "loop"
    /\ param_i' = 1
    /\ UNCHANGED <<inputVars, model, months_diff, status, future, forecasts, scoreVars,
                   prev, appVars>>

\* one iteration of the loop up to the model: column test,
\* prepare_prophet_data, size test, train_prophet_model
main_train ==
    /\ pc = "loop"
    /\ param_i <= Len(target_parameters)
    /\ LET param      == target_parameters[param_i]
           prophet_df == prepare_prophet_data(df, param)
       IN  IF param \notin df.columns
           THEN /\ model' = None
                /\ status' = SetStatus(param, "absent")
                /\ param_i' = param_i + 1
                /\ pc' = "loop"
           ELSE IF Len(prophet_df.rows) < MIN_DATA_POINTS
           THEN /\ model' = None
                /\ status' = SetStatus(param, "insufficient")
                /\ param_i' = param_i + 1
                /\ pc' = "loop"
           ELSE /\ model' \in train_prophet_model(prophet_df)
                /\ IF model' = None
                   THEN /\ status' = SetStatus(param, "fit_failed")
                        /\ param_i' = param_i + 1
                        /\ pc' = "loop"
                   ELSE /\ status' = status
                        /\ param_i' = param_i
                        /\ pc' = "forecast"
    /\ UNCHANGED <<inputVars, df, months_diff, future, forecasts, scoreVars, prev, appVars>>

\* the rest of the iteration: make_forecast_for_date and the entry in the
\* forecast map; an exception leaving make_forecast_for_date is caught only
\* by the "except Exception" around the whole of main
main_forecast ==
    /\ pc = "forecast"
    /\ LET param == target_parameters[param_i]
       IN  \E r \in make_forecast_for_date(model, df, target_date, param) :
             /\ months_diff' = r.months_diff
             /\ future' = r.future
             /\ IF r.raised
                THEN /\ status' = SetStatus(param, "raised")
                     /\ forecasts' = forecasts
                     /\ param_i' = param_i
                     /\ pc' = "critical_error"
                ELSE IF r.target_forecast = None
                THEN /\ status' = SetStatus(param,
                                     IF r.months_diff <= 0 THEN "rejected"
                                     ELSE "predict_failed")
                     /\ forecasts' = forecasts
                     /\ param_i' = param_i + 1
                     /\ pc' = "loop"
                ELSE /\ status' = SetStatus(param, "forecast")
                     /\ forecasts' =
                          [q \in DOMAIN forecasts \cup {param} |->
                              IF q = param THEN [value |-> r.target_forecast.yhat]
                              ELSE forecasts[q]]
                     /\ param_i' = param_i + 1
                     /\ pc' = "loop"
    /\ UNCHANGED <<inputVars, df, model, scoreVars, prev, appVars>>

\* after the loop: "if not forecasts: return"
main_check ==
    /\ pc = "loop"
    /\ param_i > Len(target_parameters)
    /\ pc' = IF DOMAIN forecasts = {} THEN "no_forecasts" ELSE "score"
    /\ UNCHANGED <<inputVars, df, loopVars, forecasts, scoreVars, prev, appVars>>

(***************************************************************************)
(* main, after the forecasting loop: score, description, risks             *)
(***************************************************************************)
NoRisks == [raised |-> FALSE, flags |-> <<>>]

NoPrev == [dim |-> "", forecasts |-> <<>>, wscore |-> 0]

\* no response sent yet
NoResponse == [status_code |-> 0]

main_wscore ==
    /\ pc = "score"
    /\ wscore' = calculate_wscore(forecasts)
    /\ pc' = "comfort"
    /\ UNCHANGED <<inputVars, df, loopVars, forecasts,
                   comfort_desc, specific_conditions, risks, prev, appVars>>

main_comfort ==
    /\ pc = "comfort"
    /\ LET r == get_comfort_description(wscore, forecasts)
       IN  /\ comfort_desc' = r.main_description
           /\ specific_conditions' = r.descriptions
    /\ pc' = "risks"
    /\ UNCHANGED <<inputVars, df, loopVars, forecasts, wscore, risks, prev, appVars>>

\* a KeyError raised inside analyze_weather_risks reaches main's
\* "except Exception" (Critical error); otherwise main goes on to report
\* and save
main_risks ==
    /\ pc = "risks"
    /\ risks' = analyze_weather_risks(forecasts, df)
    /\ pc' = IF risks'.raised THEN "critical_error" ELSE "save"
    /\ UNCHANGED <<inputVars, df, loopVars, forecasts,
                   wscore, comfort_desc, specific_conditions, prev, appVars>>

\* str.replace(old, new) on a string held as a sequence of characters;
\* new is a character or the empty string
ReplaceChar(str, old, new) ==
    IF new = ""
    THEN SelectSeq(str, LAMBDA c : c # old)
    ELSE [i \in 1..Len(str) |-> IF str[i] = old THEN new ELSE str[i]]

\* f'forecast_{args.region.replace(" ", "_")}_{args.target_date}.csv': the
\* name is held as its two variable parts
forecast_filename(reg, date) ==
    [region |-> ReplaceChar(reg, " ", "_"), date |-> date]

\* forecast_data: the point value of every forecast parameter, wscore and
\* comfort_description, as the single row of the record
forecast_data(fc, score, description) ==
    [values |-> [q \in DOMAIN fc |-> fc[q].value], wscore |-> score,
     comfort_description |-> description]

\* to_csv: the file of that name is created or overwritten and becomes the
\* most recently modified one
WriteFile(files, name, row) ==
    Append(SelectSeq(files, LAMBDA f : f.name # name), [name |-> name, row |-> row])

\* the report is printed and the forecast record written
main_save ==
    /\ pc = "save"
    /\ disk' = WriteFile(disk, forecast_filename(region, target_date),
                         forecast_data(forecasts, wscore, comfort_desc))
    /\ pc' = "completed"
    /\ UNCHANGED <<inputVars, df, loopVars, forecasts, scoreVars, prev, response>>

(***************************************************************************)
(* app.py: the web front end running predicts.py as a subprocess           *)
(***************************************************************************)
\* the label main prints before a forecast value: an icon, two spaces and
\* the parameter name
ForecastLabel(param) ==
    CASE param = "temperature"   -> "(icon)  temperature"
      [] param = "precipitation" -> "(icon)  precipitation"
      [] param = "wind_speed"    -> "(icon)  wind_speed"
      [] param = "humidity"      -> "(icon)  humidity"
      [] param = "snow_water"    -> "(icon)  snow_water"

ForecastUnit(param) ==
    CASE param = "temperature"   -> "°C"
      [] param = "precipitation" -> "mm/month"
      [] param = "wind_speed"    -> "m/s"
      [] param = "humidity"      -> "%"
      [] param = "snow_water"    -> "kg/m²"

\* the lines "label: number unit" that main and display_weather_widget have
\* printed when main ends: one per forecast, in the order of the forecast
\* map, and the WScore line - printed only once analyze_weather_risks has
\* returned.  The other lines of the output either hold no colon or begin,
\* like these, with an icon or a capitalised label (Region, Target date,
\* Date range, Temperature, Wind, Results saved to, Critical error).
stdout ==
    IF pc # "completed" THEN <<>>
    ELSE LET printed == SelectSeq(target_parameters, LAMBDA q : q \in DOMAIN forecasts)
         IN  [i \in 1..Len(printed) |->
                 [key    |-> ForecastLabel(printed[i]),
                  number |-> forecasts[printed[i]].value,
                  unit   |-> ForecastUnit(printed[i])]]
             \o <<[key |-> "(icon) WScore", number |-> wscore, unit |-> "/5 stars"]>>

\* parse_output: every line with a colon gives data[text before the colon];
\* the value is a float when what is left after deleting the known units is
\* a number, else the text itself
parse_output(output) ==
    LET Units == {"°C", "mm/day", "m/s", "%", "kg/m²"}
        Last(k) == CHOOSE i \in 1..Len(output) :
                      /\ output[i].key = k
                      /\ \A j \in 1..Len(output) : output[j].key = k => j <= i
    IN  [k \in { output[i].key : i \in 1..Len(output) } |->
            IF output[Last(k)].unit \in Units
            THEN [float |-> output[Last(k)].number]
            ELSE [text |-> <<output[Last(k)].number, output[Last(k)].unit>>]]

\* safe_region and filename_pattern of parse_csv_forecast
filename_pattern(reg, date) ==
    [region |-> ReplaceChar(ReplaceChar(reg, " ", "_"), ",", ""), date |-> date]

\* glob.glob(pattern) for a pattern without wildcard: the file of that name
glob(files, pattern) == SelectSeq(files, LAMBDA f : f.name = pattern)

\* the result parse_csv_forecast builds from the first row of a record: the
\* four parameters read by calculate_metrics and snow_water default to 0
read_csv_result(file) ==
    [temperature         |-> [float |-> GetValue([q \in DOMAIN file.row.values |->
                                          [value |-> file.row.values[q]]], "temperature", 0)],
     precipitation       |-> [float |-> IF "precipitation" \in DOMAIN file.row.values
                                        THEN file.row.values["precipitation"] ELSE 0],
     wind_speed          |-> [float |-> IF "wind_speed" \in DOMAIN file.row.values
                                        THEN file.row.values["wind_speed"] ELSE 0],
     humidity            |-> [float |-> IF "humidity" \in DOMAIN file.row.values
                                        THEN file.row.values["humidity"] ELSE 0],
     snow_water          |-> [float |-> IF "snow_water" \in DOMAIN file.row.values
                                        THEN file.row.values["snow_water"] ELSE 0],
     csv_file            |-> [text |-> file.name],
     wscore              |-> [float |-> file.row.wscore],
     comfort_description |-> [text |-> file.row.comfort_description]]

\* parse_csv_forecast reading only the record of the exact name
parse_csv_forecast_exact_only(reg, date, files) ==
    LET csv_files == glob(files, filename_pattern(reg, date))
    IN  IF csv_files # <<>> THEN read_csv_result(csv_files[1])
        ELSE None

\* parse_csv_forecast: the record of the exact name, else the most recently
\* modified forecast_*.csv (the last of files), else None.  The records are
\* the ones main writes: readable, one row each.
parse_csv_forecast(reg, date, files) ==
    LET csv_files == glob(files, filename_pattern(reg, date))
    IN  IF csv_files # <<>> THEN read_csv_result(csv_files[1])
        ELSE IF files # <<>> THEN read_csv_result(files[Len(files)])
        ELSE None

\* data.get(key, 0) as a float
MetricInput(data, key) ==
    IF key \in DOMAIN data THEN data[key].float ELSE 0

\* calculate_metrics; values are whole numbers here, so round(x, 1) leaves
\* them as they are, and the two wind metrics, which multiply by 3.6, are
\* held in tenths
calculate_metrics(data) ==
    LET temp     == MetricInput(data, "temperature")
        wind     == MetricInput(data, "wind_speed")
        humidity == MetricInput(data, "humidity")
        precip   == MetricInput(data, "precipitation")
        optional == {"wscore", "comfort_description"} \cap DOMAIN data
    IN  [numbers |->
           [temperature    |-> temp,
            precipitation  |-> precip,
            wind_speed     |-> wind,
            wind_speed_kmh |-> wind * 36,
            humidity       |-> humidity,
            hot_perc       |-> IF temp > 30 THEN Min(100, (temp - 30) * 10)
                               ELSE IF temp > 20 THEN (temp - 20) * 5 ELSE 0,
            cool_perc      |-> IF temp < 0 THEN Min(100, (0 - temp) * 10)
                               ELSE IF temp < 10 THEN (10 - temp) * 3 ELSE 0,
            wind_perc      |-> IF wind * 36 > 300 THEN Min(1000, (wind * 36 - 300) * 3)
                               ELSE IF wind * 36 > 200 THEN (wind * 36 - 200) * 2 ELSE 0,
            humid_perc     |-> IF humidity > 80 THEN Min(100, (humidity - 80) * 5)
                               ELSE IF humidity > 60 THEN (humidity - 60) * 2 ELSE 0,
            max_temp       |-> temp + 5],
         extra |-> [k \in optional |-> data[k]]]

\* the states in which the subprocess has exited
Exited ==
    {"usage_error", "insufficient_data", "no_forecasts", "critical_error", "completed"}

\* process.returncode: 2 when argparse rejects the arguments; main returns
\* normally on every other path, its failures included
returncode == IF pc = "usage_error" THEN 2 ELSE 0

\* api_forecast up to subprocess.run: a missing required field is answered
\* with 400; a coordinate that is not a number makes predicts.py exit in
\* parse_args
api_forecast_run ==
    /\ pc = "request"
    /\ IF request = "missing_field"
       THEN /\ response' = [status_code |-> 400, success |-> FALSE]
            /\ pc' = "bad_request"
       ELSE /\ response' = response
            /\ pc' = IF request = "bad_coordinate" THEN "usage_error" ELSE "process"
    /\ UNCHANGED <<inputVars, df, loopVars, forecasts, scoreVars, prev, disk>>

\* api_forecast after subprocess.run returned
api_forecast_respond ==
    /\ pc \in Exited
    /\ response = NoResponse
    /\ response' =
         IF returncode = 0
         THEN LET csv_data == parse_csv_forecast(region, target_date, disk)
              IN  IF csv_data # None
                  THEN [status_code |-> 200, success |-> TRUE,
                        data |-> calculate_metrics(csv_data), source |-> "csv"]
                  ELSE [status_code |-> 200, success |-> TRUE,
                        data |-> calculate_metrics(parse_output(stdout)),
                        source |-> "console"]
         ELSE [status_code |-> 500, success |-> FALSE]
    /\ UNCHANGED <<pc, inputVars, df, loopVars, forecasts, scoreVars, prev, disk>>

\* subprocess.TimeoutExpired: the subprocess is killed where it is
api_forecast_timeout ==
    /\ pc \in {"process", "loop", "forecast", "score", "comfort", "risks", "save"}
    /\ response = NoResponse
    /\ response' = [status_code |-> 500, success |-> FALSE]
    /\ pc' = "timeout"
    /\ UNCHANGED <<inputVars, df, loopVars, forecasts, scoreVars, prev, disk>>

(***************************************************************************)
(* The inputs of an invocation                                             *)
(***************************************************************************)
MaxFiles == 3

MaxExtraMonths == 1

FileName(pattern, year, num) == [pattern |-> pattern, year |-> year, num |-> num]

\* a handful of files: two of December 2023 by month stamp, two of December
\* 2023 by day of year, one of November, one with month 13, one outside the
\* bounding box, one whose name holds no date
ShortFiles ==
    { [name |-> FileName("M6", 2023, 11), in_box |-> TRUE,
       data |-> [temperature |-> <<5>>, precipitation |-> <<10>>]],
      [name |-> FileName("M6", 2023, 12), in_box |-> TRUE,
       data |-> [temperature |-> NaN, precipitation |-> <<50>>]],
      [name |-> FileName("M6", 2023, 12), in_box |-> TRUE,
       data |-> [precipitation |-> <<25>>]],
      [name |-> FileName("A7", 2023, 349), in_box |-> TRUE,
       data |-> [temperature |-> <<7>>]],
      [name |-> FileName("A7", 2023, 335), in_box |-> TRUE,
       data |-> [temperature |-> <<9>>, precipitation |-> <<30>>]],
      [name |-> FileName("M6", 2023, 13), in_box |-> TRUE,
       data |-> [temperature |-> <<1>>]],
      [name |-> FileName("M6", 2023, 10), in_box |-> FALSE,
       data |-> [temperature |-> <<2>>]],
      [name |-> FileName("none", 0, 0), in_box |-> TRUE,
       data |-> [temperature |-> <<3>>]] }

ShortLists == UNION { [1..n -> ShortFiles] : n \in 1..MaxFiles }

\* a run of n consecutive months ending in December 2023, one file a month;
\* missing[v] is the number of leading files whose dataset lacks variable v
MonthValue(v, i) ==
    CASE v = "temperature"   -> 5 + i
      [] v = "precipitation" -> 25
      [] v = "humidity"      -> 50
      [] v = "pressure"      -> 1000 + i
      [] v = "wind_speed"    -> 3
      [] v = "snow_water"    -> 0

MonthFile(n, i, missing) ==
    LET k == 2023 * 12 + 11 - (n - i)
    IN  [name   |-> FileName("M6", k \div 12, (k % 12) + 1),
         in_box |-> TRUE,
         data   |-> [v \in {x \in Variables : i > missing[x]} |-> <<MonthValue(v, i)>>]]

Coverage(n, kind) ==
    CASE kind = "full" -> 0 [] kind = "short" -> n - 5 [] kind = "absent" -> n

LongLists ==
    { [i \in 1..n |->
         MonthFile(n, i, [temperature |-> Coverage(n, t), precipitation |-> Coverage(n, p),
                          humidity |-> Coverage(n, h), pressure |-> Coverage(n, q),
                          wind_speed |-> 0, snow_water |-> Coverage(n, s)])] :
        n \in MIN_DATA_POINTS..(MIN_DATA_POINTS + MaxExtraMonths),
        t \in {"full", "short", "absent"}, p \in {"full", "short", "absent"},
        h \in {"full", "short"}, q \in {"full", "absent"}, s \in {"full", "absent"} }

\* the months June 2022 to July 2023, one file a month, with no file for June
\* 2023; with_june tells whether the file of June 2022 is there, and lacking
\* is the set of variables its dataset does not have
GapFile(k, lacking) ==
    [name   |-> FileName("M6", k \div 12, (k % 12) + 1),
     in_box |-> TRUE,
     data   |-> [v \in Variables \ lacking |-> <<MonthValue(v, (k % 12) + 1)>>]]

GapList(with_june, lacking) ==
    LET first == 2022 * 12 + 5
        rest  == [i \in 1..12 |-> GapFile(first + (IF i = 12 THEN 13 ELSE i), {})]
    IN  IF with_june THEN <<GapFile(first, lacking)>> \o rest ELSE rest

GapLists ==
    { GapList(TRUE, {"humidity"}), GapList(TRUE, {}), GapList(FALSE, {}) }

\* --target-date: dates after, in and before the last historical month, and
\* a string that is not a calendar date (month 13)
TargetDates ==
    { <<2024, 6, 1>>, <<2024, 1, 31>>, <<2023, 12, 15>>, <<2023, 6, 1>>, <<2024, 13, 1>> }

Init ==
    /\ pc = "process"
    /\ file_list \in ShortLists \cup LongLists \cup GapLists
    /\ target_date \in TargetDates
    /\ region = <<"K">>
    /\ request = "ok"
    /\ future = <<>>
    /\ disk = <<>>
    /\ response = NoResponse
    /\ df = EmptyFrame
    /\ param_i = 0
    /\ model = None
    /\ months_diff = 0
    /\ status = <<>>
    /\ forecasts = EmptyForecasts
    /\ wscore = 0
    /\ comfort_desc = ""
    /\ specific_conditions = <<>>
    /\ risks = NoRisks
    /\ prev = NoPrev

Next ==
    \/ main_process
    \/ main_train
    \/ main_forecast
    \/ main_check
    \/ main_wscore
    \/ main_comfort
    \/ main_risks
    \/ main_save

Spec == Init /\ [][Next]_vars

(***************************************************************************)
(* A request to the web front end                                          *)
(***************************************************************************)
\* the region field: a plain name, and names with a space, a comma, both
Regions ==
    { <<"K">>, <<"K", " ", "U">>, <<"K", ",", "U">>, <<"K", ",", " ", "U">> }

\* the forecast record an earlier invocation has left
StaleRow ==
    [values |-> [q \in {"temperature"} |-> 28], wscore |-> 2,
     comfort_description |-> "MODERATE - noticeable discomfort"]

\* forecast_*.csv in the working directory before the request: none, the
\* record of another region, the record of an earlier invocation for the
\* same region and date
StaleDisks(reg, date) ==
    { <<>>,
      <<[name |-> forecast_filename(<<"O">>, <<2023, 1, 1>>), row |-> StaleRow]>>,
      <<[name |-> forecast_filename(reg, date), row |-> StaleRow]>> }

\* twelve months with every variable, twelve months without precipitation,
\* the months with the gap, and one file only
AppLists ==
    { [i \in 1..MIN_DATA_POINTS |->
          MonthFile(MIN_DATA_POINTS, i,
                    [temperature |-> 0, precipitation |-> Coverage(MIN_DATA_POINTS, p),
                     humidity |-> 0, pressure |-> 0, wind_speed |-> 0, snow_water |-> 0])] :
        p \in {"full", "absent"} }
    \cup { GapList(TRUE, {"humidity"}) }
    \cup { <<MonthFile(1, 1, [v \in Variables |-> 0])>> }

InitApp ==
    /\ pc = "request"
    /\ request \in {"ok", "missing_field", "bad_coordinate"}
    /\ file_list \in AppLists
    /\ target_date \in TargetDates
    /\ region \in Regions
    /\ disk \in StaleDisks(region, target_date)
    /\ request # "ok" => /\ file_list = <<MonthFile(1, 1, [v \in Variables |-> 0])>>
                         /\ target_date = <<2024, 6, 1>>
    /\ future = <<>>
    /\ response = NoResponse
    /\ df = EmptyFrame
    /\ param_i = 0
    /\ model = None
    /\ months_diff = 0
    /\ status = <<>>
    /\ forecasts = EmptyForecasts
    /\ wscore = 0
    /\ comfort_desc = ""
    /\ specific_conditions = <<>>
    /\ risks = NoRisks
    /\ prev = NoPrev

NextApp ==
    \/ api_forecast_run
    \/ main_process
    \/ main_train
    \/ main_forecast
    \/ main_check
    \/ main_wscore
    \/ main_comfort
    \/ main_risks
    \/ main_save
    \/ api_forecast_respond
    \/ api_forecast_timeout

SpecApp == InitApp /\ [][NextApp]_vars

(***************************************************************************)
(* The scoring functions applied to bounded inputs                         *)
(***************************************************************************)
MaxLead == 2

TemperatureValues == {-20, -12, -7, -2, 5, 10, 20, 22, 28, 33, 36}

HumidityValues == {10, 20, 50, 80, 90}

WindValues == {3, 9, 12, 18, 25}

PrecipitationValues == {0, 15, 35, 45, 120, 180, 250, 350}

SnowValues == {0, 60, 150, 250, 600}

ScoreDimensions ==
    {"temperature", "humidity", "wind_speed", "precipitation", "snow_water"}

DimensionValues(d) ==
    CASE d = "temperature"   -> TemperatureValues
      [] d = "humidity"      -> HumidityValues
      [] d = "wind_speed"    -> WindValues
      [] d = "precipitation" -> PrecipitationValues
      [] d = "snow_water"    -> SnowValues

Opt(S) == {<<>>} \cup { <<v>> : v \in S }

\* the forecast map holding exactly the dimensions given a value
ForecastMap(cells) ==
    [d \in {x \in DOMAIN cells : cells[x] # <<>>} |-> [value |-> cells[d][1]]]

\* every forecast map over any subset of the five dimensions
ForecastMaps ==
    { ForecastMap([temperature |-> t, humidity |-> h, wind_speed |-> w,
                   precipitation |-> p, snow_water |-> s]) :
        t \in Opt(TemperatureValues), h \in Opt(HumidityValues),
        w \in Opt(WindValues), p \in Opt(PrecipitationValues),
        s \in Opt(SnowValues) }

\* a historical frame holding only a date and (optionally) precipitation
HistoryRow(i, cell) ==
    [date |-> <<2023, i, 1>>, temperature |-> NaN, precipitation |-> cell,
     humidity |-> NaN, pressure |-> NaN, wind_speed |-> NaN, snow_water |-> NaN]

HistoryFrame(cells) ==
    [columns |-> {"date", "precipitation"},
     rows    |-> [i \in 1..Len(cells) |-> HistoryRow(i, cells[i])]]

HistoryFrames ==
    { HistoryFrame(Rep(<<ab[1]>>, k) \o Rep(<<ab[2]>>, 6)) :
        k \in 0..MaxLead, ab \in {<<50, 25>>, <<0, 30>>} }
    \cup { HistoryFrame(<<NaN, <<20>>, <<30>> >>), HistoryFrame(Rep(NaN, 3)) }
    \cup { [columns |-> {"date", "temperature"},
            rows |-> [i \in 1..3 |-> [HistoryRow(i, NaN) EXCEPT !.temperature = <<5>>]]] }

InitScore ==
    /\ pc = "score"
    /\ file_list = <<>>
    /\ target_date = <<2024, 6, 1>>
    /\ region = <<"K">>
    /\ request = "ok"
    /\ future = <<>>
    /\ disk = <<>>
    /\ response = NoResponse
    /\ df \in HistoryFrames
    /\ param_i = 0
    /\ model = None
    /\ months_diff = 0
    /\ status = <<>>
    /\ forecasts \in ForecastMaps
    /\ wscore = 0
    /\ comfort_desc = ""
    /\ specific_conditions = <<>>
    /\ risks = NoRisks
    /\ prev = NoPrev

\* the neutral default of a dimension in calculate_wscore
NeutralDefault(d) ==
    CASE d = "temperature"   -> 20
      [] d = "humidity"      -> 50
      [] d = "wind_speed"    -> 3
      [] d = "precipitation" -> 0
      [] d = "snow_water"    -> 0

\* calculate_wscore applied a second time, to an input that differs from the
\* scored one only in dimension d, raised to a larger value, the other
\* dimensions being at their neutral defaults; prev keeps the first input
\* and its score
wscore_raised ==
    /\ pc = "save"
    /\ prev = NoPrev
    /\ \E d \in DOMAIN forecasts : \E v \in DimensionValues(d) :
         /\ v > forecasts[d].value
         /\ \A o \in DOMAIN forecasts \ {d} : forecasts[o].value = NeutralDefault(o)
         /\ forecasts' = [forecasts EXCEPT ![d] = [value |-> v]]
         /\ prev' = [dim |-> d, forecasts |-> forecasts, wscore |-> wscore]
    /\ wscore' = calculate_wscore(forecasts')
    /\ LET r == get_comfort_description(wscore', forecasts')
       IN  /\ comfort_desc' = r.main_description
           /\ specific_conditions' = r.descriptions
    /\ risks' = analyze_weather_risks(forecasts', df)
    /\ pc' = "save"
    /\ UNCHANGED <<inputVars, df, loopVars, appVars>>

NextScore == main_wscore \/ main_comfort \/ main_risks \/ wscore_raised

SpecScore == InitScore /\ [][NextScore]_vars

(***************************************************************************)
(* Properties of the scoring functions                                     *)
(***************************************************************************)
\* main ended inside the forecasting loop, before any score was computed
LoopAborted == pc = "critical_error" /\ param_i \in 1..Len(target_parameters)

Scored ==
    pc \in {"comfort", "risks", "save", "critical_error", "completed"} /\ ~LoopAborted

Described == pc \in {"risks", "save", "critical_error", "completed"} /\ ~LoopAborted

RisksAnalyzed == pc \in {"save", "critical_error", "completed"} /\ ~LoopAborted

\* the severity tier of each dimension, region by region
TemperatureTier(t) ==
    CASE t \in -10..-6 \/ t \in 31..35 -> 4
      [] t \in -5..-1 \/ t \in 26..30  -> 3
      [] t \in 0..9 \/ t \in 21..25    -> 2
      [] t \in 10..20                  -> 1
      [] OTHER                         -> 5

HumidityTier(h) ==
    CASE h >= 86         -> 4
      [] h \in 71..85    -> 3
      [] h <= 19         -> 3
      [] OTHER           -> 1

WindTier(w) ==
    CASE w >= 16 -> 5 [] w \in 11..15 -> 4 [] w \in 8..10 -> 3 [] OTHER -> 1

AmountTier(a) ==
    CASE a >= 201 -> 5 [] a \in 101..200 -> 4 [] a \in 51..100 -> 3 [] OTHER -> 1

DimensionTiers(fc) ==
    { TemperatureTier(IF "temperature" \in DOMAIN fc THEN fc["temperature"].value ELSE 20),
      HumidityTier(IF "humidity" \in DOMAIN fc THEN fc["humidity"].value ELSE 50),
      WindTier(IF "wind_speed" \in DOMAIN fc THEN fc["wind_speed"].value ELSE 3),
      AmountTier(IF "precipitation" \in DOMAIN fc THEN fc["precipitation"].value ELSE 0),
      AmountTier(IF "snow_water" \in DOMAIN fc THEN fc["snow_water"].value ELSE 0) }

\* C1: for every forecast map (absent dimensions at their defaults) the
\* score is the maximum of the five per-dimension tiers, and lies in 1..5
Thm_C1 ==
    Scored =>
        /\ wscore \in DimensionTiers(forecasts)
        /\ \A tier \in DimensionTiers(forecasts) : tier <= wscore
        /\ wscore \in 1..5

\* a partial map: only humidity and snow present, humidity decides
Wit_C1 ==
    /\ pc = "comfort"
    /\ DOMAIN forecasts = {"humidity", "snow_water"}
    /\ forecasts["humidity"].value = 90
    /\ forecasts["snow_water"].value = 60
    /\ wscore = 4

NeutralScenario(t) ==
    ForecastMap([temperature |-> <<t>>, humidity |-> <<50>>, wind_speed |-> <<3>>,
                 precipitation |-> <<0>>, snow_water |-> <<0>>])

\* C2 as stated: the neutral scenario with temperature 22 scores 1 with the
\* tier-1 phrase and no condition callouts
Orig_C2 ==
    (Described /\ forecasts = NeutralScenario(22)) =>
        /\ wscore = 1
        /\ comfort_desc = "EXCELLENT - very comfortable conditions"
        /\ specific_conditions = <<>>

\* C2 amended: with temperature 22 (above 20) the score is 2 and the phrase
\* is the tier-2 phrase, with no condition callouts; score 1 and the tier-1
\* phrase are what the scenario gets at temperature 20
Thm_C2 ==
    /\ (Described /\ forecasts = NeutralScenario(22)) =>
          /\ wscore = 2
          /\ comfort_desc = "GOOD - comfortable conditions"
          /\ specific_conditions = <<>>
    /\ (Described /\ forecasts = NeutralScenario(20)) =>
          /\ wscore = 1
          /\ comfort_desc = "EXCELLENT - very comfortable conditions"
          /\ specific_conditions = <<>>

Wit_C2 ==
    /\ pc = "risks"
    /\ forecasts = NeutralScenario(22)
    /\ prev = NoPrev
    /\ wscore = 2
    /\ comfort_desc = "GOOD - comfortable conditions"

\* the mean of the last n cells of the frame's precipitation column is below
\* bound (NaN cells do not count; no value at all: not below)
RECURSIVE SumCells(_, _)
SumCells(col, idx) ==
    IF idx = {} THEN 0
    ELSE LET i == CHOOSE x \in idx : TRUE
         IN  col[i][1] + SumCells(col, idx \ {i})

TrailingPrecipitationBelow(frame, n, bound) ==
    LET rows == frame.rows
        idx  == { i \in 1..Len(rows) :
                    i + n > Len(rows) /\ rows[i].precipitation # NaN }
        col  == [i \in 1..Len(rows) |-> rows[i].precipitation]
    IN  /\ "precipitation" \in frame.columns
        /\ idx # {}
        /\ SumCells(col, idx) < bound * Cardinality(idx)

\* C3 as stated: the neutral scenario gets no risk flag, whatever the history
Orig_C3 ==
    (RisksAnalyzed /\ forecasts = NeutralScenario(22)) => risks = NoRisks

\* C3 amended: in the neutral scenario the list is never empty, because
\* precipitation 0 is below the deficit threshold: on a history with a
\* precipitation column it is exactly one flag, the drought flag when the
\* mean of the last 6 values is below 30 and the deficit flag otherwise; on
\* a history without that column the call raises KeyError
Thm_C3 ==
    (RisksAnalyzed /\ forecasts = NeutralScenario(22)) =>
        IF "precipitation" \in df.columns
        THEN /\ ~risks.raised
             /\ risks.flags = IF TrailingPrecipitationBelow(df, 6, 30)
                              THEN <<"DROUGHT RISK">>
                              ELSE <<"PRECIPITATION DEFICIT">>
        ELSE risks.raised

Wit_C3 ==
    /\ pc = "save"
    /\ forecasts = NeutralScenario(22)
    /\ prev = NoPrev
    /\ ~TrailingPrecipitationBelow(df, 6, 30)
    /\ risks.flags = <<"PRECIPITATION DEFICIT">>

RaisedValue == forecasts[prev.dim].value

LowerValue == prev.forecasts[prev.dim].value

\* C4 as stated: raising any one dimension, the others at their neutral
\* defaults, never lowers the score
Orig_C4 ==
    prev # NoPrev => wscore >= prev.wscore

\* C4 amended: raising wind, precipitation or snow never lowers the score;
\* raising temperature never lowers it when the lower temperature is at
\* least 10, and raising humidity never lowers it when the lower humidity is
\* at least 20
Thm_C4 ==
    (/\ prev # NoPrev
     /\ \/ prev.dim \in {"wind_speed", "precipitation", "snow_water"}
        \/ prev.dim = "temperature" /\ LowerValue >= 10
        \/ prev.dim = "humidity" /\ LowerValue >= 20)
    => wscore >= prev.wscore

\* temperature raised from 22 to 36, the example of the spec
Wit_C4 ==
    /\ prev # NoPrev
    /\ prev.dim = "temperature"
    /\ LowerValue = 22
    /\ RaisedValue = 36
    /\ prev.wscore = 2
    /\ wscore = 5

PrecipitationForecast ==
    IF "precipitation" \in DOMAIN forecasts THEN forecasts["precipitation"].value ELSE 0

InFlags(name) == \E i \in 1..Len(risks.flags) : risks.flags[i] = name

\* C5: the drought flag is emitted exactly when the precipitation forecast
\* is below 20 and the mean of the last 6 historical precipitation values is
\* below 30; when a list is returned without it and the forecast is below
\* 40, the deficit flag is emitted instead (and only then); forecast 15 with
\* a trailing mean of 25 gives drought, forecast 35 gives deficit only
Thm_C5 ==
    RisksAnalyzed =>
        /\ InFlags("DROUGHT RISK") <=>
              (PrecipitationForecast < 20 /\ TrailingPrecipitationBelow(df, 6, 30))
        /\ ~risks.raised =>
              (InFlags("PRECIPITATION DEFICIT") <=>
                  (PrecipitationForecast < 40 /\ ~InFlags("DROUGHT RISK")))
        /\ (PrecipitationForecast = 35 /\ ~risks.raised) =>
              (InFlags("PRECIPITATION DEFICIT") /\ ~InFlags("DROUGHT RISK"))

\* forecast 15 on a history whose last 6 values average 25, preceded by
\* wetter months
Wit_C5 ==
    /\ pc = "save"
    /\ PrecipitationForecast = 15
    /\ "precipitation" \in DOMAIN forecasts
    /\ Len(df.rows) > 6
    /\ \A i \in 1..Len(df.rows) :
          df.rows[i].precipitation = IF i + 6 > Len(df.rows) THEN <<25>> ELSE <<50>>
    /\ InFlags("DROUGHT RISK")
    /\ ~InFlags("PRECIPITATION DEFICIT")

\* the hazard family of a flag, in the fixed order
Family(flag) ==
    CASE flag \in {"HIGH FLOOD RISK", "MODERATE FLOOD RISK"}  -> 1
      [] flag \in {"DROUGHT RISK", "PRECIPITATION DEFICIT"}   -> 2
      [] flag \in {"EXTREME FROST", "STRONG FROST"}           -> 3
      [] flag \in {"EXTREME HEAT", "HEAT"}                    -> 4
      [] flag \in {"EXTREME SNOWFALL", "HEAVY SNOWFALL"}      -> 5
      [] flag \in {"HURRICANE WINDS", "STRONG WIND"}          -> 6

RiskInput(key) == IF key \in DOMAIN forecasts THEN forecasts[key].value ELSE 0

\* C6: the returned list has at most one flag per family, in the order
\* flood, drought, frost, heat, snow, wind, and a family's flag is the
\* high-severity one whenever its high threshold is crossed
Thm_C6 ==
    (RisksAnalyzed /\ ~risks.raised) =>
        /\ \A i, j \in 1..Len(risks.flags) :
              i < j => Family(risks.flags[i]) < Family(risks.flags[j])
        /\ RiskInput("precipitation") > 300 => InFlags("HIGH FLOOD RISK")
        /\ (RiskInput("precipitation") < 20 /\ TrailingPrecipitationBelow(df, 6, 30))
              => InFlags("DROUGHT RISK")
        /\ RiskInput("temperature") < -15 => InFlags("EXTREME FROST")
        /\ RiskInput("temperature") > 35 => InFlags("EXTREME HEAT")
        /\ RiskInput("snow_water") > 500 => InFlags("EXTREME SNOWFALL")
        /\ RiskInput("wind_speed") > 20 => InFlags("HURRICANE WINDS")

\* both thresholds of flood, heat, snow and wind crossed at once
Wit_C6 ==
    /\ pc = "save"
    /\ prev = NoPrev
    /\ risks.flags = <<"HIGH FLOOD RISK", "EXTREME HEAT", "EXTREME SNOWFALL",
                       "HURRICANE WINDS">>

(***************************************************************************)
(* Properties of the pipeline                                              *)
(***************************************************************************)
\* months counted from year 0
MonthNumber(date) == date[1] * 12 + date[2]

LastMonthNumber(frame) ==
    LET ms == { MonthNumber(frame.rows[i].date) : i \in 1..Len(frame.rows) }
    IN  CHOOSE m \in ms : \A k \in ms : k <= m

\* the parameters for which make_forecast_for_date computed a horizon
Projected == { q \in DOMAIN status : status[q] \in {"rejected", "predict_failed", "forecast"} }

\* C7: the horizon is the number of months from the last historical month to
\* the target month (2023-12 to 2024-06: 6), and with a horizon of 0 or less
\* the variable gets no forecast and no entry in the forecast map
Thm_C7 ==
    /\ Projected # {} =>
          /\ months_diff = MonthNumber(target_date) - LastMonthNumber(df)
          /\ (LastMonthNumber(df) = 2023 * 12 + 12 /\ target_date = <<2024, 6, 1>>)
                => months_diff = 6
          /\ months_diff <= 0 => \A q \in Projected : status[q] = "rejected"
    /\ \A q \in DOMAIN status : status[q] = "rejected" => q \notin DOMAIN forecasts
    /\ \A q \in DOMAIN forecasts :
          /\ status[q] = "forecast"
          /\ MonthNumber(target_date) > LastMonthNumber(df)

\* a target in the last historical month: horizon 0, temperature rejected
Wit_C7 ==
    /\ pc = "loop"
    /\ target_date = <<2023, 12, 15>>
    /\ months_diff = 0
    /\ "temperature" \in DOMAIN status
    /\ status["temperature"] = "rejected"
    /\ "temperature" \notin DOMAIN forecasts

ParameterSet == { target_parameters[i] : i \in 1..Len(target_parameters) }

ValueCount(frame, v) == Len(NonNaN(Column(frame, v)))

\* a series of at least 12 months in which variable v is short (fewer than
\* 12 values) and every other variable has a value in every month
OneShortVariable(frame, v) ==
    /\ Len(frame.rows) >= MIN_DATA_POINTS
    /\ Variables \subseteq frame.columns
    /\ ValueCount(frame, v) < MIN_DATA_POINTS
    /\ \A o \in Variables \ {v} : ValueCount(frame, o) = Len(frame.rows)

LoopDone == pc \notin {"process", "insufficient_data"} /\ param_i > Len(target_parameters)

\* C8 as stated: when one variable is short and the others are fully
\* populated, the short one gets no forecast and every other parameter is
\* still fitted (is not skipped as absent or insufficient), so that it gets
\* its forecast whenever its own fit and projection succeed
Orig_C8 ==
    \A v \in Variables :
        (/\ LoopDone
         /\ OneShortVariable(df, v)
         /\ ~StrptimeRaises(target_date)
         /\ MonthNumber(target_date) > LastMonthNumber(df)) =>
            /\ v \notin DOMAIN forecasts
            /\ \A q \in ParameterSet \ {v} : status[q] \notin {"absent", "insufficient"}

\* C9 as stated: a failure in fitting or projecting one variable never ends
\* the loop: once main is past the loop (or has ended with an error), every
\* parameter has been processed and the forecast map holds exactly the
\* parameters whose own fit and projection succeeded
Orig_C9 ==
    pc \in {"critical_error", "no_forecasts", "score", "comfort", "risks", "save",
            "completed"} =>
        /\ param_i > Len(target_parameters)
        /\ DOMAIN status = ParameterSet
        /\ DOMAIN forecasts = { q \in ParameterSet : status[q] = "forecast" }

\* C10 as stated: the months of the series returned by process_all_files are
\* strictly increasing (sorted, one row a month)
Orig_C10 ==
    pc # "process" =>
        \A i, j \in 1..Len(df.rows) :
            i < j => MonthNumber(df.rows[i].date) < MonthNumber(df.rows[j].date)

\* the record of this invocation has been written
RecordWritten ==
    \E i \in 1..Len(disk) :
        /\ disk[i].name = forecast_filename(region, target_date)
        /\ disk[i].row = forecast_data(forecasts, wscore, comfort_desc)

\* C12 as stated: whatever variables the series holds, with a non-empty
\* forecast map the steps after the loop complete without error and the
\* forecast record is written
Orig_C12 ==
    (LoopDone /\ DOMAIN forecasts # {}) =>
        /\ pc # "critical_error"
        /\ pc = "completed" => RecordWritten

\* C15 as stated: the future value of a regressor is the mean of its values
\* in the target's calendar month when it has at least one, else the mean of
\* its last 12 values, else its last value
ClaimedFutureValue(frame, feature, month) ==
    LET monthly == NonNaN(MonthlyData(frame, feature, month))
        recent  == NonNaN(SeriesTail(Column(frame, feature), 12))
        all     == NonNaN(Column(frame, feature))
    IN  IF monthly # <<>> THEN Mean(monthly)
        ELSE IF recent # <<>> THEN Mean(recent)
        ELSE IF all # <<>> THEN [sum |-> all[Len(all)][1], count |-> 1]
        ELSE NaN

\* two means are the same number
MeanEq(a, b) ==
    IF a = NaN \/ b = NaN THEN a = b
    ELSE a.sum * b.count = b.sum * a.count

\* make_forecast_for_date has just built the future frame for a parameter
FutureBuilt ==
    /\ pc = "loop"
    /\ param_i > 1
    /\ status[target_parameters[param_i - 1]] \in {"forecast", "predict_failed"}

Orig_C15 ==
    /\ FutureBuilt => DOMAIN future = model.regressors
    /\ \A r \in DOMAIN future :
          /\ future[r] # NaN
          /\ MeanEq(future[r], ClaimedFutureValue(df, r, target_date[2]))

\* the rows of the series before the forward fill, in file order
Unfilled(files) ==
    LET extracted == [i \in 1..Len(files) |-> extract_weather_data(files[i])]
        data_list == SelectSeq(extracted, LAMBDA d : d # None)
    IN  [i \in 1..Len(data_list) |-> FrameRow(data_list[i])]

\* the cell of variable v in row i of the sorted rows is as C16 says the
\* filled cell is: the original when there was one, else the value of the
\* nearest earlier month that has one, else missing
FilledAsClaimed(sorted, i, v, cell) ==
    LET earlier == { j \in 1..Len(sorted) :
                       /\ MonthNumber(sorted[j].date) < MonthNumber(sorted[i].date)
                       /\ sorted[j][v] # NaN }
    IN  IF sorted[i][v] # NaN THEN cell = sorted[i][v]
        ELSE IF earlier = {} THEN cell = NaN
        ELSE \E j \in earlier :
                /\ \A k \in earlier :
                      MonthNumber(sorted[k].date) <= MonthNumber(sorted[j].date)
                /\ cell = sorted[j][v]

\* C16 as stated: in the series returned by process_all_files a cell that
\* was present is unchanged, a cell that was missing holds the value of the
\* nearest preceding month that had one, and is missing only when no earlier
\* month had one
Orig_C16 ==
    pc # "process" =>
        \E sorted \in SortedByDate(Unfilled(file_list), 1..Len(Unfilled(file_list))) :
            /\ Len(sorted) = Len(df.rows)
            /\ \A i \in 1..Len(sorted) :
                  /\ df.rows[i].date = sorted[i].date
                  /\ \A v \in Variables : FilledAsClaimed(sorted, i, v, df.rows[i][v])

\* C17: with a target date at or before the last historical month no
\* parameter gets a forecast - each one that reaches make_forecast_for_date
\* is rejected on the same horizon - and main goes no further than the
\* zero-forecast failure: no score, no description, no risk flags, no record
Thm_C17 ==
    (/\ pc \notin {"process", "insufficient_data"}
     /\ ~StrptimeRaises(target_date)
     /\ MonthNumber(target_date) <= LastMonthNumber(df)) =>
        /\ DOMAIN forecasts = {}
        /\ \A q \in Projected :
              /\ status[q] = "rejected"
              /\ months_diff = MonthNumber(target_date) - LastMonthNumber(df)
        /\ pc \in {"loop", "forecast", "no_forecasts"}
        /\ LoopDone /\ ~ENABLED main_check => pc = "no_forecasts"
        /\ wscore = 0
        /\ comfort_desc = ""
        /\ risks = NoRisks
        /\ disk = <<>>

\* a target in the last historical month, every parameter fitted and
\* rejected, main ended with no forecasts
Wit_C17 ==
    /\ pc = "no_forecasts"
    /\ target_date = <<2023, 12, 15>>
    /\ LastMonthNumber(df) = MonthNumber(target_date)
    /\ \A q \in ParameterSet : q \in DOMAIN status /\ status[q] = "rejected"
    /\ DOMAIN forecasts = {}
    /\ disk = <<>>

(***************************************************************************)
(* Properties of the front end                                             *)
(***************************************************************************)
Responded == response # NoResponse

\* C11 as stated: when main ends because no parameter produced a forecast,
\* no record is written and the response api_forecast returns is an error
Orig_C11 ==
    pc = "no_forecasts" =>
        /\ disk \in StaleDisks(region, target_date)
        /\ Responded => (~response.success /\ response.status_code # 200)

\* C13 as stated: the name main writes is the name parse_csv_forecast looks
\* up, so the record just written is found by the exact lookup, and the
\* most recent record is taken only when none was written for this region
\* and date
Orig_C13 ==
    /\ forecast_filename(region, target_date) = filename_pattern(region, target_date)
    /\ pc = "completed" =>
          /\ glob(disk, filename_pattern(region, target_date)) # <<>>
          /\ glob(disk, filename_pattern(region, target_date))[1].row
                = forecast_data(forecasts, wscore, comfort_desc)
    /\ (Responded /\ response.status_code = 200
          /\ glob(disk, filename_pattern(region, target_date)) = <<>>) =>
             ~RecordWritten

====
